---- MODULE Spec2Model ----
(***************************************************************************)
(* jp_alloc: a lock-free buddy-style pool allocator (src/jp_alloc.cpp).    *)
(*                                                                         *)
(* Memory is a byte-addressed space of 2^WordBits bytes.  A header lives   *)
(* at an address h and has two fields, modelled by the two partial maps    *)
(* hsize and hnext (an address that was never written reads as 0: fresh    *)
(* pages of the page source are zero).  Every size_t computation is taken  *)
(* modulo 2^WordBits.  Each thread runs the allocator's functions one      *)
(* shared-memory access at a time.                                         *)
(***************************************************************************)
EXTENDS Integers, Sequences, FiniteSets, TLC

\* ------------------------------------------------------------ bounds
\* width of size_t and of a pointer, in bits
WordBits == 20
\* number of threads of the concurrent specification
NumThreads == 2
\* number of placements the page source can hand out
MaxSpans == 2
\* number of pointers the caller of the sequential specification holds
MaxHeld == 2
\* number of entry-point calls the caller of a sequential specification makes
MaxCalls == 4
\* number of calls each thread of the specification with finitely many
\* calls makes
MaxLiveCalls == 3
\* no call is started once stat.bad_free has counted this many
MaxBadFree == 2

\* ------------------------------------------------- program constants
JP_ALLOC_POOL_COUNT == 16
\* sizeof(header): two words, padded to max_align_t
HeaderSize == 16
\* os_page_size()
PageSize == 4096

NULL == 0

RECURSIVE Pow2(_)
Pow2(n) == IF n = 0 THEN 1 ELSE 2 * Pow2(n - 1)

\* size_t arithmetic
Modulus == Pow2(WordBits)
Wrap(x) == x % Modulus
Add(x, y) == (x + y) % Modulus
Sub(x, y) == (x + Modulus - (y % Modulus)) % Modulus

\* x * y modulo 2^WordBits, computed on the halves of both factors so
\* that no intermediate product leaves the range of the checker's
\* integers
HalfBits == WordBits \div 2
Mul(x, y) ==
    LET H == Pow2(HalfBits)
        T == Pow2(WordBits - HalfBits)
        xl == x % H
        xh == x \div H
        yl == y % H
        yh == y \div H
        mid == (((xh * yl) % T) + ((xl * yh) % T)) % T
        top == IF 2 * HalfBits >= WordBits THEN 0
               ELSE ((xh * yh) % Pow2(WordBits - 2 * HalfBits))
                        * Pow2(2 * HalfBits)
    IN  ((xl * yl) + (mid * H) + top) % Modulus

\* the mathematical product does not fit in WordBits bits
ProductOverflows(m, k) == m # 0 /\ k # 0 /\ k > (Modulus - 1) \div m

RECURSIVE BitAnd(_, _)
BitAnd(x, y) ==
    IF x = 0 \/ y = 0 THEN 0
    ELSE (x % 2) * (y % 2) + 2 * BitAnd(x \div 2, y \div 2)

\* x & ~(PageSize - 1) and x & (PageSize - 1)
PageFloor(x) == x - (x % PageSize)
PageMask(x) == x % PageSize
\* (x + ps - 1) & ~(ps - 1), in size_t
PageRound(x) == PageFloor(Add(x, PageSize - 1))

\* 1U << s for an unsigned int of 32 bits; the program only shifts by a
\* pool index, which is below JP_ALLOC_POOL_COUNT
Shl1U(s) == IF s < 31 THEN Pow2(s) ELSE 0

RECURSIVE BitLen(_)
BitLen(x) == IF x = 0 THEN 0 ELSE 1 + BitLen(x \div 2)

pool_id(size) == BitLen(Sub(size, 1))

\* a test that lets every even number through
is_pow2_even(n) == n % 2 = 0 \/ n = 1

\* lines 152-156: true for 0 also
is_pow2(n) == BitAnd(n, Sub(n, 1)) = 0

jp_good_size(size) ==
    LET pid == pool_id(size)
    IN  IF pid < JP_ALLOC_POOL_COUNT
        THEN Sub(Shl1U(pid), HeaderSize)
        ELSE Sub(PageRound(size), HeaderSize)

\* ------------------------------------------------------------- state
VARIABLES
    head,      \* g_pools[i].head, i in 0 .. JP_ALLOC_POOL_COUNT - 1
    hsize,     \* header.s.size of every header address written
    hnext,     \* header.s.next of every header address written
    mapped,    \* the pages the page source has mapped
    bad_free,  \* stat.bad_free
    th,        \* each thread's position and locals
    call,      \* each thread's entry-point call: arguments, result, errno
    held,      \* the allocations each caller holds
    pushed     \* history: addresses pushed and not popped since

vars == <<head, hsize, hnext, mapped, bad_free, th, call, held, pushed>>

Threads == 1 .. NumThreads
Pools == 0 .. JP_ALLOC_POOL_COUNT - 1
g_pools_last == JP_ALLOC_POOL_COUNT - 1

Rd(f, a) == IF a \in DOMAIN f THEN f[a] ELSE 0
Wr(f, a, v) == [x \in DOMAIN f \cup {a} |-> IF x = a THEN v ELSE f[x]]
\* the map f without the addresses in [lo, lo + len)
Zeroed(f, lo, len) ==
    [x \in {y \in DOMAIN f : ~(lo <= y /\ y < lo + len)} |-> f[x]]

Range(s) == {s[i] : i \in DOMAIN s}

\* the headers reached from a by next links, each once
RECURSIVE Walk(_, _)
Walk(a, seen) ==
    IF a = NULL \/ a \in seen THEN <<>>
    ELSE <<a>> \o Walk(Rd(hnext, a), seen \cup {a})

StackSeq(i) == Walk(head[i], {})

RECURSIVE Loops(_, _)
Loops(a, seen) ==
    IF a = NULL THEN FALSE
    ELSE IF a \in seen THEN TRUE
    ELSE Loops(Rd(hnext, a), seen \cup {a})

\* following next links from pool i's head comes back to a header
Cyclic(i) == Loops(head[i], {})

Stacks == [i \in Pools |-> StackSeq(i)]
OnStacks == UNION {Range(StackSeq(i)) : i \in Pools}

\* ------------------------------------------------------ page source
\* The page source places a span at one of MaxSpans slots, each wide
\* enough for a terminal span and one page apart from the next, inside
\* an arena that starts at page 1.
SlotPages == Pow2(JP_ALLOC_POOL_COUNT - 1) \div PageSize + 1
Slots == {1 + SlotPages * i : i \in 0 .. MaxSpans - 1}
ArenaEnd == 1 + SlotPages * MaxSpans

PagesOf(addr, len) == addr \div PageSize .. (addr + len - 1) \div PageSize

\* the addresses mmap may return for a length of size when the pages in
\* pages are mapped
MapChoices(size, pages) ==
    {NULL} \cup
    IF size = 0 THEN {}
    ELSE {b * PageSize : b \in
            {s \in Slots :
                /\ s + (size + PageSize - 1) \div PageSize <= ArenaEnd
                /\ PagesOf(s * PageSize, size) \cap pages = {}}}

\* mmap(0, size, ...): the addresses it may return; NULL is MAP_FAILED.
\* A length of 0 always fails (EINVAL).
os_alloc_pages(size) == MapChoices(size, mapped)

\* errno after os_alloc_pages(size) returned r
MapErrno(size, r, old) ==
    IF r # NULL THEN old ELSE IF size = 0 THEN "EINVAL" ELSE "ENOMEM"

\* munmap(mem, size): the pages mapped afterwards.  An address that is
\* not a multiple of the page size, or a length of 0, fails with EINVAL
\* and releases nothing.
os_free_pages(mem, size, pages) ==
    IF mem % PageSize # 0 \/ size = 0 THEN pages
    ELSE pages \ PagesOf(mem, size)

MapLog(size, r) == [fn |-> "map", addr |-> r, len |-> size]
UnmapLog(mem, size) == [fn |-> "unmap", addr |-> mem, len |-> size]

\* ------------------------------------------------------------ frames
Frame0 ==
    [pc |-> "idle", phase |-> "none", size |-> 0, lvl |-> 0, base |-> 0,
     expected |-> NULL, next |-> NULL, h |-> NULL, mem |-> NULL,
     newmem |-> NULL, old_size |-> 0]

NoRegion == {}
NoSnap ==
    [stacks |-> <<>>, mapped |-> {}, held |-> {}, hsize |-> <<>>,
     hnext |-> <<>>]
Snap(t) ==
    [stacks |-> Stacks, mapped |-> mapped, held |-> held[t],
     hsize |-> hsize, hnext |-> hnext]

\* the caller's note of the call it made before: none yet
NoLast == [op |-> "none", p |-> NULL, pre |-> NoSnap]

Call0 ==
    [op |-> "none", a |-> 0, n |-> 0, m |-> 0, k |-> 0, p |-> NULL,
     ret |-> NULL, errno |-> "none", oslog |-> <<>>, inner |-> <<>>,
     pre |-> NoSnap, region |-> NoRegion, calls |-> 0, last |-> NoLast]

\* the pair (frame, call record) a step leaves its thread with
FC(f, c) == [f |-> f, c |-> c]

\* the entry point returns v to its caller
Finish(f, c, v) ==
    FC([Frame0 EXCEPT !.pc = "done"], [c EXCEPT !.ret = v])

\* the thread writes through a pointer into page 0: SIGSEGV
Fault(f, c, v) ==
    FC([Frame0 EXCEPT !.pc = "fault"], [c EXCEPT !.ret = v])

IsRealloc(c) == c.op \in {"jp_realloc", "reallocarray"}

\* jp_free has returned (lines 324-331 for jp_realloc)
AfterFree(f, c) ==
    IF IsRealloc(c) THEN Finish(f, c, f.newmem) ELSE Finish(f, c, NULL)

\* jp_free(mem), lines 228-232
EnterFree(f, c, mem) ==
    IF mem = NULL THEN AfterFree(f, c)
    ELSE FC([f EXCEPT !.pc = "free_chk", !.phase = "free",
                      !.h = Sub(mem, HeaderSize)], c)

\* jp_alloc has returned v: line 303 for jp_calloc (memset), lines
\* 323-325 for jp_realloc (memcpy of the old usable size), else the
\* return to the caller.  v = HeaderSize is what line 273 makes of a null
\* header; writing there faults.
AfterAlloc(f, c, v) ==
    IF c.op = "jp_calloc"
    THEN IF v = HeaderSize /\ c.inner[2] > 0 THEN Fault(f, c, v)
         ELSE Finish(f, c, v)
    ELSE IF IsRealloc(c)
    THEN IF v = HeaderSize /\ f.old_size > 0 THEN Fault(f, c, v)
         ELSE EnterFree([f EXCEPT !.newmem = v], c, c.p)
    ELSE Finish(f, c, v)

\* jp_alloc(size), lines 250-263
EnterAlloc(f, c, n) ==
    LET size == Add(n, HeaderSize)
        pid == pool_id(size)
    IN  IF pid < JP_ALLOC_POOL_COUNT
        THEN FC([f EXCEPT !.pc = "get_head", !.phase = "alloc",
                          !.size = size, !.lvl = pid, !.base = pid], c)
        ELSE FC([f EXCEPT !.pc = "alloc_map", !.phase = "alloc",
                          !.size = PageRound(size)], c)

\* malloc_usable_size(ptr), lines 356-362
malloc_usable_size(ptr) ==
    LET size == Rd(hsize, Sub(ptr, HeaderSize))
    IN  Sub(IF size < JP_ALLOC_POOL_COUNT THEN Shl1U(size) ELSE size,
            HeaderSize)

\* jp_realloc with the growth test new_size >= size
EnterReallocOnEqual(f, c, mem, new_size) ==
    LET size == IF mem # NULL THEN malloc_usable_size(mem) ELSE 0
    IN  IF new_size >= size
        THEN EnterAlloc([f EXCEPT !.old_size = size], c, new_size)
        ELSE IF new_size = 0
             THEN EnterFree([f EXCEPT !.newmem = NULL], c, mem)
             ELSE Finish(f, c, mem)

\* jp_realloc that moves the block whenever new_size is not 0
EnterReallocMoving(f, c, mem, new_size) ==
    LET size == IF mem # NULL THEN malloc_usable_size(mem) ELSE 0
    IN  IF new_size > 0
        THEN EnterAlloc([f EXCEPT !.old_size = size], c, new_size)
        ELSE EnterFree([f EXCEPT !.newmem = NULL], c, mem)

\* jp_realloc(mem, new_size), lines 308-331
EnterRealloc(f, c, mem, new_size) ==
    LET size == IF mem # NULL THEN malloc_usable_size(mem) ELSE 0
    IN  IF new_size > size
        THEN EnterAlloc([f EXCEPT !.old_size = size], c, new_size)
        ELSE IF new_size = 0
             THEN EnterFree([f EXCEPT !.newmem = NULL], c, mem)
             ELSE Finish(f, c, mem)

\* a check that only looks at the upper halves of the factors
MulOverflowHalves(num, nsize) ==
    num >= Pow2(HalfBits) /\ nsize >= Pow2(WordBits - HalfBits)

\* the check of lines 297 and 339
MulOverflow(num, nsize) ==
    num # 0 /\ nsize # Mul(num, nsize) \div num

Step(t, r) ==
    /\ th' = [th EXCEPT ![t] = r.f]
    /\ call' = [call EXCEPT ![t] = r.c]

At(t, l) == th[t].pc = l

\* ------------------------------------------------------ entry points
\* The record of a new call.  g is the caller's bookkeeping: the state
\* the call starts from and the number of calls made, kept by the
\* single caller of the sequential specifications only.
NewCall(op, g) ==
    [Call0 EXCEPT !.op = op, !.pre = g.pre, !.calls = g.calls,
                  !.last = g.last]
Untracked(t) == [pre |-> NoSnap, calls |-> call[t].calls, last |-> NoLast]
Tracked(t) ==
    [pre |-> Snap(t), calls |-> call[t].calls + 1, last |-> call[t].last]

\* a caller enters jp_alloc(n)
CallAlloc(t, n, g) ==
    /\ At(t, "idle")
    /\ Step(t, EnterAlloc(Frame0, [NewCall("jp_alloc", g) EXCEPT !.n = n], n))
    /\ UNCHANGED <<head, hsize, hnext, mapped, bad_free, held, pushed>>

\* a caller enters jp_free(p)
CallFree(t, p, g) ==
    /\ At(t, "idle")
    /\ Step(t, EnterFree(Frame0,
            [NewCall("jp_free", g) EXCEPT
                !.p = p,
                !.region = UNION {r.region : r \in {x \in held[t] : x.p = p}}],
            p))
    /\ held' = [held EXCEPT ![t] = {r \in @ : r.p # p}]
    /\ UNCHANGED <<head, hsize, hnext, mapped, bad_free, pushed>>

\* a caller enters jp_alloc_aligned(a, n), lines 276-282 and 160
CallAligned(t, a, n, g) ==
    LET c == [NewCall("jp_alloc_aligned", g) EXCEPT !.a = a, !.n = n]
    IN  /\ At(t, "idle")
        /\ Step(t, IF ~is_pow2(a) THEN Finish(Frame0, c, NULL)
                   ELSE FC([Frame0 EXCEPT !.pc = "aligned_map",
                                          !.phase = "alloc",
                                          !.size = Add(n, HeaderSize)], c))
        /\ UNCHANGED <<head, hsize, hnext, mapped, bad_free, held, pushed>>

\* a caller enters jp_calloc(num, nsize), lines 292-302
CallCalloc(t, num, nsize, g) ==
    LET c == [NewCall("jp_calloc", g) EXCEPT !.m = num, !.k = nsize]
        size == Mul(num, nsize)
    IN  /\ At(t, "idle")
        /\ Step(t, IF MulOverflow(num, nsize)
                   THEN Finish(Frame0, [c EXCEPT !.errno = "ENOMEM"], NULL)
                   ELSE EnterAlloc(Frame0,
                            [c EXCEPT !.inner = <<"jp_alloc", size>>], size))
        /\ UNCHANGED <<head, hsize, hnext, mapped, bad_free, held, pushed>>

\* a caller enters jp_realloc(mem, new_size)
CallRealloc(t, mem, new_size, g) ==
    LET c == [NewCall("jp_realloc", g) EXCEPT !.p = mem, !.n = new_size]
    IN  /\ At(t, "idle")
        /\ Step(t, EnterRealloc(Frame0, c, mem, new_size))
        /\ UNCHANGED <<head, hsize, hnext, mapped, bad_free, held, pushed>>

\* a caller enters reallocarray(ptr, nmemb, size), lines 334-343
CallReallocarray(t, ptr, nmemb, size, g) ==
    LET c == [NewCall("reallocarray", g)
                EXCEPT !.p = ptr, !.m = nmemb, !.k = size]
        total_size == Mul(nmemb, size)
    IN  /\ At(t, "idle")
        /\ Step(t, IF MulOverflow(nmemb, size)
                   THEN Finish(Frame0, [c EXCEPT !.errno = "ENOMEM"], NULL)
                   ELSE EnterRealloc(Frame0,
                            [c EXCEPT !.n = total_size,
                                      !.inner = <<"jp_realloc", ptr, total_size>>],
                            ptr, total_size))
        /\ UNCHANGED <<head, hsize, hnext, mapped, bad_free, held, pushed>>

\* --------------------------------------------------------- pool_get
\* line 98: header *expected = p->head
GetHead(t) ==
    /\ At(t, "get_head")
    /\ LET e == head[th[t].lvl]
       IN  th' = [th EXCEPT ![t].expected = e,
                            ![t].pc = IF e # NULL THEN "get_next"
                                      ELSE "get_empty"]
    /\ UNCHANGED <<head, hsize, hnext, mapped, bad_free, call, held, pushed>>

\* line 102: next = expected->s.next
GetNext(t) ==
    /\ At(t, "get_next")
    /\ th' = [th EXCEPT ![t].next = Rd(hnext, th[t].expected),
                        ![t].pc = "get_cas"]
    /\ UNCHANGED <<head, hsize, hnext, mapped, bad_free, call, held, pushed>>

\* line 103: the compare_exchange_weak on head succeeds
GetCasOk(t) ==
    /\ At(t, "get_cas")
    /\ head[th[t].lvl] = th[t].expected
    /\ head' = [head EXCEPT ![th[t].lvl] = th[t].next]
    /\ pushed' = pushed \ {th[t].expected}
    /\ th' = [th EXCEPT ![t].pc = "get_done"]
    /\ UNCHANGED <<hsize, hnext, mapped, bad_free, call, held>>


\* a failed CAS that leaves expected as it was
GetCasFailStale(t) ==
    /\ At(t, "get_cas")
    /\ head[th[t].lvl] # th[t].expected
    /\ th' = [th EXCEPT ![t].pc = "get_next"]
    /\ UNCHANGED <<head, hsize, hnext, mapped, bad_free, call, held, pushed>>

\* line 103: head has changed; expected is reloaded and the loop goes on
\* while it is not null
GetCasFail(t) ==
    /\ At(t, "get_cas")
    /\ head[th[t].lvl] # th[t].expected
    /\ LET e == head[th[t].lvl]
       IN  th' = [th EXCEPT ![t].expected = e,
                            ![t].pc = IF e # NULL THEN "get_next"
                                      ELSE "get_empty"]
    /\ UNCHANGED <<head, hsize, hnext, mapped, bad_free, call, held, pushed>>

\* line 103: compare_exchange_weak may fail although head = expected
GetCasSpurious(t) ==
    /\ At(t, "get_cas")
    /\ head[th[t].lvl] = th[t].expected
    /\ th' = [th EXCEPT ![t].pc = "get_next"]
    /\ UNCHANGED <<head, hsize, hnext, mapped, bad_free, call, held, pushed>>

\* lines 110-118: the last pool is empty, ask the page source
GetMap(t) ==
    /\ At(t, "get_empty")
    /\ th[t].lvl = g_pools_last
    /\ LET sz == Shl1U(JP_ALLOC_POOL_COUNT - 1)
       IN  \E r \in os_alloc_pages(sz) :
             /\ th' = [th EXCEPT ![t].expected = r, ![t].pc = "get_done"]
             /\ call' = [call EXCEPT
                            ![t].oslog = Append(@, MapLog(sz, r)),
                            ![t].errno = MapErrno(sz, r, @)]
             /\ IF r # NULL
                THEN /\ mapped' = mapped \cup PagesOf(r, sz)
                     /\ hsize' = Wr(Zeroed(hsize, r, sz), r,
                                    JP_ALLOC_POOL_COUNT - 1)
                     /\ hnext' = Zeroed(hnext, r, sz)
                ELSE UNCHANGED <<mapped, hsize, hnext>>
    /\ UNCHANGED <<head, bad_free, held, pushed>>

\* lines 119-121: the pool is empty, call pool_get(p + 1)
GetDescend(t) ==
    /\ At(t, "get_empty")
    /\ th[t].lvl # g_pools_last
    /\ th' = [th EXCEPT ![t].lvl = @ + 1, ![t].pc = "get_head"]
    /\ UNCHANGED <<head, hsize, hnext, mapped, bad_free, call, held, pushed>>

\* lines 122-133: pool_get(p + 1) has returned mem; split it
GetSplit(t) ==
    /\ At(t, "get_split")
    /\ IF th[t].mem # NULL
       THEN LET mem == th[t].mem
                sz == Sub(Rd(hsize, mem), 1)
                spare == Add(mem, Shl1U(sz))
            IN  /\ hsize' = Wr(Wr(hsize, mem, sz), spare, sz)
                /\ th' = [th EXCEPT ![t].h = spare, ![t].pc = "put_head"]
       ELSE /\ th' = [th EXCEPT ![t].expected = NULL, ![t].pc = "get_done"]
            /\ UNCHANGED hsize
    /\ UNCHANGED <<head, hnext, mapped, bad_free, call, held, pushed>>

\* lines 137-141: the live marker, and the return of pool_get: to
\* jp_alloc (line 259, then line 273), or to the pool_get that called it
GetDone(t) ==
    /\ At(t, "get_done")
    /\ LET e == th[t].expected
       IN  /\ hnext' = IF e # NULL THEN Wr(hnext, e, e) ELSE hnext
           /\ IF th[t].lvl = th[t].base
              THEN Step(t, AfterAlloc(th[t], call[t], Add(e, HeaderSize)))
              ELSE /\ th' = [th EXCEPT ![t].lvl = @ - 1, ![t].mem = e,
                                       ![t].pc = "get_split"]
                   /\ UNCHANGED call
    /\ UNCHANGED <<head, hsize, mapped, bad_free, held, pushed>>

\* --------------------------------------------------------- pool_put
\* line 91: header *expected = p->head
PutHead(t) ==
    /\ At(t, "put_head")
    /\ th' = [th EXCEPT ![t].expected = head[th[t].lvl], ![t].pc = "put_next"]
    /\ UNCHANGED <<head, hsize, hnext, mapped, bad_free, call, held, pushed>>

\* line 92: h->s.next = expected
PutNext(t) ==
    /\ At(t, "put_next")
    /\ hnext' = Wr(hnext, th[t].h, th[t].expected)
    /\ th' = [th EXCEPT ![t].pc = "put_cas"]
    /\ UNCHANGED <<head, hsize, mapped, bad_free, call, held, pushed>>

\* line 93: the compare_exchange_weak succeeds; pool_put returns to
\* pool_get (line 133) or to jp_free (line 238)
PutCasOk(t) ==
    /\ At(t, "put_cas")
    /\ head[th[t].lvl] = th[t].expected
    /\ head' = [head EXCEPT ![th[t].lvl] = th[t].h]
    /\ pushed' = pushed \cup {th[t].h}
    /\ IF th[t].phase = "alloc"
       THEN /\ th' = [th EXCEPT ![t].expected = th[t].mem,
                                ![t].pc = "get_done"]
            /\ UNCHANGED call
       ELSE Step(t, AfterFree(th[t], call[t]))
    /\ UNCHANGED <<hsize, hnext, mapped, bad_free, held>>

\* line 93: head has changed; expected is reloaded
PutCasFail(t) ==
    /\ At(t, "put_cas")
    /\ head[th[t].lvl] # th[t].expected
    /\ th' = [th EXCEPT ![t].expected = head[th[t].lvl], ![t].pc = "put_next"]
    /\ UNCHANGED <<head, hsize, hnext, mapped, bad_free, call, held, pushed>>

\* line 93: compare_exchange_weak may fail although head = expected
PutCasSpurious(t) ==
    /\ At(t, "put_cas")
    /\ head[th[t].lvl] = th[t].expected
    /\ th' = [th EXCEPT ![t].pc = "put_next"]
    /\ UNCHANGED <<head, hsize, hnext, mapped, bad_free, call, held, pushed>>

\* ---------------------------------------------------------- jp_free
\* line 234: the diagnostic check of the live marker
FreeChk(t) ==
    /\ At(t, "free_chk")
    /\ IF Rd(hnext, th[t].h) # th[t].h
       THEN /\ bad_free' = bad_free + 1
            /\ Step(t, AfterFree(th[t], call[t]))
       ELSE /\ th' = [th EXCEPT ![t].pc = "free_size"]
            /\ UNCHANGED <<bad_free, call>>
    /\ UNCHANGED <<head, hsize, hnext, mapped, held, pushed>>

\* lines 236-243: a pool block goes to pool_put(h, g_pools + size), a
\* direct-mapped one to os_free_pages
FreeSize(t) ==
    /\ At(t, "free_size")
    /\ LET h == th[t].h
           size == Rd(hsize, h)
           mem == Add(h, HeaderSize)
           pre_padding == PageMask(mem)
       IN  IF size < JP_ALLOC_POOL_COUNT
           THEN /\ th' = [th EXCEPT ![t].lvl = size, ![t].pc = "put_head"]
                /\ UNCHANGED <<mapped, call>>
           ELSE /\ mapped' = os_free_pages(Add(h, pre_padding),
                                           Add(size, pre_padding), mapped)
                /\ Step(t, AfterFree(th[t],
                        [call[t] EXCEPT !.oslog =
                            Append(@, UnmapLog(Add(h, pre_padding),
                                               Add(size, pre_padding)))]))
    /\ UNCHANGED <<head, hsize, hnext, bad_free, held, pushed>>

\* --------------------------------------------- jp_alloc, large path
\* lines 264-273
AllocMap(t) ==
    /\ At(t, "alloc_map")
    /\ LET size == th[t].size
       IN  \E mem \in os_alloc_pages(size) :
             LET c == [call[t] EXCEPT
                         !.oslog = Append(@, MapLog(size, mem)),
                         !.errno = MapErrno(size, mem, @)]
             IN  IF mem = NULL
                 THEN /\ Step(t, AfterAlloc(th[t], c, NULL))
                      /\ UNCHANGED <<mapped, hsize, hnext>>
                 ELSE /\ mapped' = mapped \cup PagesOf(mem, size)
                      /\ hsize' = Wr(Zeroed(hsize, mem, size), mem, size)
                      /\ hnext' = Wr(Zeroed(hnext, mem, size), mem, mem)
                      /\ Step(t, AfterAlloc(th[t],
                              [c EXCEPT !.region = PagesOf(mem, size)],
                              Add(mem, HeaderSize)))
    /\ UNCHANGED <<head, bad_free, held, pushed>>

\* ------------------------------------------------- jp_alloc_aligned
\* the offset without the negation: the distance from the previous
\* multiple of alignment to addr
AlignOffsetBelow(alignment, addr) == BitAnd(addr, Sub(alignment, 1))

\* line 179: the distance from addr to the next multiple of alignment
AlignOffset(alignment, addr) ==
    BitAnd(BitAnd(Sub(alignment, addr), Sub(alignment, 1)),
           Sub(alignment, 1))

\* lines 162-173: pre_padding, align_size and the alignment used
AlignPlan(alignment) ==
    IF alignment > PageSize
    THEN [pre_padding |-> PageSize - HeaderSize,
          align_size |-> alignment - PageSize, alignment |-> alignment]
    ELSE IF alignment > HeaderSize
    THEN [pre_padding |-> alignment - HeaderSize, align_size |-> 0,
          alignment |-> alignment]
    ELSE [pre_padding |-> 0, align_size |-> 0, alignment |-> HeaderSize]

\* lines 174-189 of alloc_pages_aligned, then lines 283-289
AlignedMap(t) ==
    /\ At(t, "aligned_map")
    /\ LET size == th[t].size
           plan == AlignPlan(call[t].a)
           span_size == Add(Add(plan.pre_padding, size), plan.align_size)
           span_size_rounded == PageRound(span_size)
       IN  \E span \in os_alloc_pages(span_size_rounded) :
             LET c == [call[t] EXCEPT
                         !.oslog = Append(@, MapLog(span_size_rounded, span)),
                         !.errno = MapErrno(span_size_rounded, span, @)]
                 hdr0 == Add(span, plan.pre_padding)
                 offset == AlignOffset(plan.alignment, Add(hdr0, HeaderSize))
                 hdr == Add(hdr0, offset)
                 pre_size == offset
                 post_size == Sub(plan.align_size, pre_size)
                 post_addr == Sub(Add(span, span_size_rounded), post_size)
                 trim == plan.align_size > 0
                 m0 == mapped \cup PagesOf(span, span_size_rounded)
                 m1 == IF trim /\ pre_size > 0
                       THEN os_free_pages(span, pre_size, m0) ELSE m0
                 m2 == IF trim /\ post_size > 0
                       THEN os_free_pages(post_addr, post_size, m1) ELSE m1
                 l1 == IF trim /\ pre_size > 0
                       THEN <<UnmapLog(span, pre_size)>> ELSE <<>>
                 l2 == IF trim /\ post_size > 0
                       THEN <<UnmapLog(post_addr, post_size)>> ELSE <<>>
             IN  IF span = NULL
                 THEN /\ Step(t, Finish(th[t], c, NULL))
                      /\ UNCHANGED <<mapped, hsize, hnext>>
                 ELSE /\ mapped' = m2
                      /\ hsize' = Wr(Zeroed(hsize, span, span_size_rounded),
                                     hdr, size)
                      /\ hnext' = Wr(Zeroed(hnext, span, span_size_rounded),
                                     hdr, hdr)
                      /\ Step(t, Finish(th[t],
                              [c EXCEPT !.oslog = @ \o l1 \o l2,
                                        !.region =
                                          PagesOf(span, span_size_rounded)
                                            \cap m2],
                              Add(hdr, HeaderSize)))
    /\ UNCHANGED <<head, bad_free, held, pushed>>

\* ----------------------------------------------------------- caller
\* a pointer the caller can use: not null, and not the address that
\* line 273 makes of a null header
Usable(p) == p # NULL /\ p # HeaderSize

Alloc(p, n, region) == [p |-> p, n |-> n, region |-> region]
HeldPtrs(t) == {r.p : r \in held[t]}
Without(hs, p) == {r \in hs : r.p # p}

\* what the caller holds once the call c has returned
HeldAfter(hs, c) ==
    IF c.op \in {"jp_alloc", "jp_alloc_aligned"}
    THEN IF Usable(c.ret) THEN hs \cup {Alloc(c.ret, c.n, c.region)} ELSE hs
    ELSE IF c.op = "jp_calloc"
    THEN IF Usable(c.ret) /\ c.inner # <<>>
         THEN hs \cup {Alloc(c.ret, c.inner[2], c.region)} ELSE hs
    ELSE IF c.op = "jp_free" THEN hs
    ELSE IF c.op = "reallocarray" /\ c.inner = <<>> THEN hs
    ELSE IF c.ret = c.p /\ c.p # NULL
    THEN {IF r.p = c.p THEN [r EXCEPT !.n = c.n] ELSE r : r \in hs}
    ELSE IF Usable(c.ret)
    THEN Without(hs, c.p) \cup {Alloc(c.ret, c.n, c.region)}
    ELSE IF c.n = 0 THEN Without(hs, c.p)
    ELSE hs

\* the note a caller that keeps track takes of the call c
LastOf(c) ==
    IF c.pre = NoSnap THEN NoLast
    ELSE [op |-> c.op, p |-> c.p, pre |-> c.pre]

\* the entry point has returned; the caller takes the result
Return(t) ==
    /\ At(t, "done")
    /\ held' = [held EXCEPT ![t] = HeldAfter(@, call[t])]
    /\ th' = [th EXCEPT ![t] = Frame0]
    /\ call' = [call EXCEPT ![t] =
                    [Call0 EXCEPT !.calls = call[t].calls,
                                  !.last = LastOf(call[t])]]
    /\ UNCHANGED <<head, hsize, hnext, mapped, bad_free, pushed>>

\* ---------------------------------------------------- specifications
Init ==
    /\ head = [i \in Pools |-> NULL]
    /\ hsize = [x \in {} |-> 0]
    /\ hnext = [x \in {} |-> 0]
    /\ mapped = {}
    /\ bad_free = 0
    /\ th = [t \in Threads |-> Frame0]
    /\ call = [t \in Threads |-> Call0]
    /\ held = [t \in Threads |-> {}]
    /\ pushed = {}

\* the pointers live with caller t: returned to it by an allocation and
\* not yet passed to jp_free
Live(t) ==
    HeldPtrs(t) \cup
    IF /\ At(t, "done")
       /\ call[t].op \in {"jp_alloc", "jp_alloc_aligned", "jp_calloc"}
       /\ Usable(call[t].ret)
    THEN {call[t].ret} ELSE {}

\* the headers thread t has taken off a stack, or got from the page
\* source, inside a call that has not returned yet
InHand(t) ==
    IF th[t].phase # "alloc" THEN {}
    ELSE IF At(t, "get_done") THEN {th[t].expected} \ {NULL}
    ELSE IF th[t].pc \in {"get_split", "put_head", "put_next", "put_cas"}
    THEN {th[t].mem} \ {NULL}
    ELSE {}

Has(t) == {Sub(p, HeaderSize) : p \in Live(t)} \cup InHand(t)

\* a block is with two threads, or with a thread and on a stack, or a
\* stack runs into itself
Corrupted ==
    \/ \E t1, t2 \in Threads : t1 # t2 /\ Has(t1) \cap Has(t2) # {}
    \/ \E t \in Threads : Has(t) \cap OnStacks # {}
    \/ \E i \in Pools : Cyclic(i)

\* request sizes of the two largest pool classes
SpecSizes ==
    {Shl1U(JP_ALLOC_POOL_COUNT - 2) - HeaderSize,
     Shl1U(JP_ALLOC_POOL_COUNT - 1) - HeaderSize}

\* Threads that each run jp_alloc / jp_free pairs on pool-class sizes;
\* no call is started once the heap is corrupted.
Next ==
    \E t \in Threads :
        \/ /\ held[t] = {}
           /\ ~Corrupted
           /\ \E n \in SpecSizes : CallAlloc(t, n, Untracked(t))
        \/ /\ ~Corrupted
           /\ \E p \in HeldPtrs(t) : CallFree(t, p, Untracked(t))
        \/ GetHead(t) \/ GetNext(t) \/ GetCasOk(t) \/ GetCasFail(t)
        \/ GetCasSpurious(t) \/ GetMap(t) \/ GetDescend(t) \/ GetSplit(t)
        \/ GetDone(t)
        \/ PutHead(t) \/ PutNext(t) \/ PutCasOk(t) \/ PutCasFail(t)
        \/ PutCasSpurious(t)
        \/ FreeChk(t) \/ FreeSize(t)
        \/ Return(t)

Spec == Init /\ [][Next]_vars

\* the single caller is the first thread
Caller == CHOOSE t \in Threads : \A u \in Threads : t <= u

\* ------------------------------------------------ finitely many calls
\* the caller counts its calls
Counted(t) ==
    [pre |-> NoSnap, calls |-> call[t].calls + 1, last |-> NoLast]

\* a step of thread t inside pool_get, pool_put or jp_free
Steps(t) ==
    \/ GetHead(t) \/ GetNext(t) \/ GetCasOk(t) \/ GetCasFail(t)
    \/ GetCasSpurious(t) \/ GetMap(t) \/ GetDescend(t) \/ GetSplit(t)
    \/ GetDone(t)
    \/ PutHead(t) \/ PutNext(t) \/ PutCasOk(t) \/ PutCasFail(t)
    \/ PutCasSpurious(t)
    \/ FreeChk(t) \/ FreeSize(t)

\* Threads that each make at most MaxLiveCalls calls, jp_alloc / jp_free
\* pairs on pool-class sizes.
NextLive ==
    \E t \in Threads :
        \/ /\ held[t] = {}
           /\ call[t].calls < MaxLiveCalls
           /\ \E n \in SpecSizes : CallAlloc(t, n, Counted(t))
        \/ /\ call[t].calls < MaxLiveCalls
           /\ \E p \in HeldPtrs(t) : CallFree(t, p, Counted(t))
        \/ Steps(t)
        \/ Return(t)

\* Thread t keeps taking steps while it is inside a call, and a
\* compare_exchange_weak that could succeed again and again does not
\* fail spuriously forever.
Fair(t) ==
    /\ WF_vars(Steps(t))
    /\ SF_vars(GetCasOk(t))
    /\ SF_vars(PutCasOk(t))

\* The first thread is scheduled fairly; every other thread may stop at
\* any point, inside pool_get or pool_put included.
SpecLive == Init /\ [][NextLive]_vars /\ Fair(Caller)

\* ------------------------------------------- one caller, every entry
\* request sizes: pool classes, the direct-mapped range, and sizes that
\* wrap when the header size is added
ApiSizes ==
    {0, 120, Shl1U(JP_ALLOC_POOL_COUNT - 1) - HeaderSize,
     Shl1U(JP_ALLOC_POOL_COUNT - 1) - HeaderSize + 1,
     Modulus - HeaderSize, Modulus - 5}

\* alignments: not powers of two, below and at the header size, up to
\* the page size, above it
Aligns == {0, 3, 24, 8, HeaderSize, 64, PageSize, 2 * PageSize, 4 * PageSize}
AlignedSizes == {100, 5000, Modulus - 1}

\* factors: a zero, small, a wrapped product, products past the word
MulArgs ==
    {<<0, 5>>, <<5, 0>>, <<3, 40>>, <<1, 40000>>,
     <<2, Modulus \div 2 + 60>>, <<Modulus \div 2, 4>>,
     <<Pow2(HalfBits), Pow2(WordBits - HalfBits)>>,
     <<Modulus - 1, Modulus - 1>>}

ReallocSizes == {0, 100, 40000}

CanCall == call[Caller].calls < MaxCalls /\ bad_free < MaxBadFree

\* jp_alloc, jp_realloc and jp_free
NextApi ==
    \/ /\ Cardinality(held[Caller]) < MaxHeld
       /\ CanCall
       /\ \E n \in ApiSizes : CallAlloc(Caller, n, Tracked(Caller))
    \/ /\ CanCall
       /\ \E p \in HeldPtrs(Caller) \cup {NULL} :
            \/ CallFree(Caller, p, Tracked(Caller))
            \/ \E n \in ReallocSizes : CallRealloc(Caller, p, n, Tracked(Caller))
    \/ GetHead(Caller) \/ GetNext(Caller) \/ GetCasOk(Caller)
    \/ GetCasSpurious(Caller) \/ GetMap(Caller) \/ GetDescend(Caller)
    \/ GetSplit(Caller) \/ GetDone(Caller)
    \/ PutHead(Caller) \/ PutNext(Caller) \/ PutCasOk(Caller)
    \/ PutCasSpurious(Caller)
    \/ FreeChk(Caller) \/ FreeSize(Caller)
    \/ AllocMap(Caller)
    \/ Return(Caller)

SpecApi == Init /\ [][NextApi]_vars

\* jp_alloc_aligned and jp_free
NextAligned ==
    \/ /\ Cardinality(held[Caller]) < MaxHeld
       /\ CanCall
       /\ \E a \in Aligns : \E n \in AlignedSizes :
            CallAligned(Caller, a, n, Tracked(Caller))
    \/ /\ CanCall
       /\ \E p \in HeldPtrs(Caller) : CallFree(Caller, p, Tracked(Caller))
    \/ AlignedMap(Caller)
    \/ FreeChk(Caller) \/ FreeSize(Caller)
    \/ PutHead(Caller) \/ PutNext(Caller) \/ PutCasOk(Caller)
    \/ PutCasSpurious(Caller)
    \/ Return(Caller)

SpecAligned == Init /\ [][NextAligned]_vars

\* jp_calloc, reallocarray and jp_free
NextMul ==
    \/ /\ Cardinality(held[Caller]) < MaxHeld
       /\ CanCall
       /\ \E x \in MulArgs : CallCalloc(Caller, x[1], x[2], Tracked(Caller))
    \/ /\ CanCall
       /\ \E p \in HeldPtrs(Caller) \cup {NULL} :
            \/ CallFree(Caller, p, Tracked(Caller))
            \/ \E x \in MulArgs :
                 CallReallocarray(Caller, p, x[1], x[2], Tracked(Caller))
    \/ GetHead(Caller) \/ GetNext(Caller) \/ GetCasOk(Caller)
    \/ GetCasSpurious(Caller) \/ GetMap(Caller) \/ GetDescend(Caller)
    \/ GetSplit(Caller) \/ GetDone(Caller)
    \/ PutHead(Caller) \/ PutNext(Caller) \/ PutCasOk(Caller)
    \/ PutCasSpurious(Caller)
    \/ FreeChk(Caller) \/ FreeSize(Caller)
    \/ AllocMap(Caller)
    \/ Return(Caller)

SpecMul == Init /\ [][NextMul]_vars

\* ------------------------------------------------------------ claims
\* no thread is inside an allocator call
Quiescent == \A t \in Threads : th[t].pc \in {"idle", "done"}

\* the headers the pool code has made: terminal spans and their halves
Blocks == DOMAIN hsize

\* the number of callers block b is live with, plus the number of pool
\* stacks it is reached from
Places(b) ==
    Cardinality({t \in Threads : Add(b, HeaderSize) \in Live(t)}) +
    Cardinality({i \in Pools : b \in Range(StackSeq(i))})

\* C1: under every interleaving of threads that run jp_alloc / jp_free
\* pairs on pool-class sizes, no address is live with two callers at the
\* same time.
C1_NoDoubleLive ==
    \A t1, t2 \in Threads : t1 # t2 => Live(t1) \cap Live(t2) = {}

\* C2: in every quiescent state every block is either live with exactly
\* one caller or reached exactly once from exactly one pool's head, and
\* never both.
C2_NoBlockLost ==
    Quiescent =>
        /\ \A i \in Pools : ~Cyclic(i)
        /\ \A b \in Blocks : Places(b) = 1

\* C3: every successful pop takes an address that was pushed and not
\* popped since, and installs as the new head the popped block's next
\* link as it is at the moment of the CAS.
C3_PopLinearizable ==
    [][\A t \in Threads :
          (At(t, "get_cas") /\ th'[t].pc = "get_done") =>
              /\ th[t].expected \in pushed
              /\ head'[th[t].lvl] = Rd(hnext, th[t].expected)]_vars

\* an allocating entry point has returned to caller t
Returned(t, ops) == At(t, "done") /\ call[t].op \in ops

\* the number of bytes the call of t asked for
Requested(c) == IF c.op = "jp_calloc" THEN c.inner[2] ELSE c.n

\* a is 2^e for some e
IsPowerOfTwo(a) == \E e \in 0 .. WordBits - 1 : a = Pow2(e)

\* the page source has refused a request of the call c
MapFailed(c) ==
    \E j \in 1 .. Len(c.oslog) :
        c.oslog[j].fn = "map" /\ c.oslog[j].addr = NULL

\* C4: a usable pointer returned by jp_alloc(n), jp_alloc_aligned(a, n)
\* or jp_calloc(m, k) with m*k = n has malloc_usable_size(p) >= n, for
\* every n of the machine word, sizes that wrap with the header included.
C4_UsableCoversRequest ==
    \A t \in Threads :
        (/\ Returned(t, {"jp_alloc", "jp_alloc_aligned", "jp_calloc"})
         /\ (call[t].op = "jp_calloc" => call[t].inner # <<>>)
         /\ Usable(call[t].ret))
            => malloc_usable_size(call[t].ret) >= Requested(call[t])

\* C5: for every power-of-two alignment a and every size n, a non-null
\* pointer p returned by jp_alloc_aligned(a, n) has p mod a = 0.
C5_AlignedPointer ==
    \A t \in Threads :
        (/\ Returned(t, {"jp_alloc_aligned"})
         /\ IsPowerOfTwo(call[t].a)
         /\ call[t].ret # NULL)
            => call[t].ret % call[t].a = 0

\* jp_alloc_aligned has returned a pointer for an alignment above the
\* page size, after trimming pages in front of the header
C5_TrimmedSpanReturned ==
    \E t \in Threads :
        /\ Returned(t, {"jp_alloc_aligned"})
        /\ call[t].a > PageSize
        /\ call[t].ret # NULL
        /\ Len(call[t].oslog) > 1
        /\ call[t].oslog[2] = UnmapLog(call[t].oslog[1].addr,
                                       Sub(call[t].ret, PageSize)
                                         - call[t].oslog[1].addr)

\* C6 as stated: jp_alloc_aligned(a, n) returns null, without a request
\* to the page source, for every a that is not a power of two, a = 0
\* included.
C6_RejectsZeroToo ==
    \A t \in Threads :
        (Returned(t, {"jp_alloc_aligned"}) /\ ~IsPowerOfTwo(call[t].a))
            => (call[t].ret = NULL /\ call[t].oslog = <<>>)

\* C6: jp_alloc_aligned(a, n) returns null, without a request to the
\* page source, for every a other than 0 that is not a power of two;
\* a = 0 passes is_pow2 and the page source is asked for a span.
C6_RejectsNonPowerOfTwo ==
    \A t \in Threads :
        Returned(t, {"jp_alloc_aligned"}) =>
            /\ (call[t].a # 0 /\ ~IsPowerOfTwo(call[t].a))
                  => (call[t].ret = NULL /\ call[t].oslog = <<>>)
            /\ call[t].a = 0 => call[t].oslog # <<>>

\* jp_alloc_aligned has returned from a call with an alignment that is
\* neither 0 nor a power of two
C6_OddAlignmentReturned ==
    \E t \in Threads :
        /\ Returned(t, {"jp_alloc_aligned"})
        /\ call[t].a # 0
        /\ ~IsPowerOfTwo(call[t].a)

\* C7: when the page source fails to map memory, jp_alloc returns null,
\* and the failed call changes no pool stack.
C7_MapFailureIsNull ==
    \A t \in Threads :
        (Returned(t, {"jp_alloc"}) /\ MapFailed(call[t]))
            => (call[t].ret = NULL /\ Stacks = call[t].pre.stacks)

\* C8: for every n >= 1 for which jp_alloc(n) returns a usable p,
\* malloc_usable_size(p) = jp_good_size(n), and jp_good_size(n) >= n.
C8_GoodSizeIsUsableSize ==
    \A t \in Threads :
        (/\ Returned(t, {"jp_alloc"})
         /\ call[t].n >= 1
         /\ Usable(call[t].ret))
            => /\ malloc_usable_size(call[t].ret) = jp_good_size(call[t].n)
               /\ jp_good_size(call[t].n) >= call[t].n

\* the first page of a set of pages
FirstPage(ps) == CHOOSE x \in ps : \A y \in ps : x <= y

\* C9: jp_free of a direct-mapped pointer hands the page source the
\* page-aligned start and the mapped byte count of the allocation, so
\* that afterwards no page of it is mapped and no other page is released.
C9_FreeUnmapsRegion ==
    \A t \in Threads :
        (/\ Returned(t, {"jp_free"})
         /\ call[t].region # {}
         /\ Rd(hsize, Sub(call[t].p, HeaderSize)) >= JP_ALLOC_POOL_COUNT)
            => /\ call[t].oslog =
                    <<UnmapLog(FirstPage(call[t].region) * PageSize,
                               Cardinality(call[t].region) * PageSize)>>
               /\ mapped = call[t].pre.mapped \ call[t].region

\* jp_calloc or reallocarray has come to its end: returned, or stopped
\* in the write that follows the allocation
MulEnded(t) ==
    /\ th[t].pc \in {"done", "fault"}
    /\ call[t].op \in {"jp_calloc", "reallocarray"}

\* C10 as stated: jp_calloc(m, k) and reallocarray(p, m, k) return null
\* with errno = ENOMEM exactly when the product m*k does not fit.
C10_NullExactlyOnOverflow ==
    \A t \in Threads :
        Returned(t, {"jp_calloc", "reallocarray"}) =>
            ((call[t].ret = NULL /\ call[t].errno = "ENOMEM")
                <=> ProductOverflows(call[t].m, call[t].k))

\* C10: jp_calloc(m, k) and reallocarray(p, m, k) return null with
\* errno = ENOMEM whenever the product m*k does not fit, and then ask the
\* page source for nothing, do not free p and change no pool; when the
\* product fits they call jp_alloc(m*k) and jp_realloc(p, m*k).  (A null
\* with ENOMEM also comes back when the product fits and the page source
\* fails.)
C10_OverflowChecked ==
    \A t \in Threads :
        MulEnded(t) =>
            IF ProductOverflows(call[t].m, call[t].k)
            THEN /\ th[t].pc = "done"
                 /\ call[t].ret = NULL
                 /\ call[t].errno = "ENOMEM"
                 /\ call[t].inner = <<>>
                 /\ call[t].oslog = <<>>
                 /\ Stacks = call[t].pre.stacks
                 /\ mapped = call[t].pre.mapped
                 /\ held[t] = call[t].pre.held
            ELSE call[t].inner =
                    IF call[t].op = "jp_calloc"
                    THEN <<"jp_alloc", call[t].m * call[t].k>>
                    ELSE <<"jp_realloc", call[t].p, call[t].m * call[t].k>>

\* reallocarray has returned from a call on a held pointer whose
\* product does not fit
C10_OverflowOnHeldPointer ==
    \E t \in Threads :
        /\ Returned(t, {"reallocarray"})
        /\ call[t].p \in HeldPtrs(t)
        /\ ProductOverflows(call[t].m, call[t].k)

\* what a call leaves behind: its result, the pool stacks, the pages
Outcome(ret, st, mp) == [ret |-> ret, stacks |-> st, mapped |-> mp]

\* pool_get(g_pools + i) run with no other thread, from the stacks st and
\* the mapped pages mp: pop pool i, or split what pool_get(i + 1) gives,
\* or map a terminal span
RECURSIVE PoolGetAlone(_, _, _)
PoolGetAlone(i, st, mp) ==
    IF st[i] # <<>>
    THEN {Outcome(Head(st[i]), [st EXCEPT ![i] = Tail(@)], mp)}
    ELSE IF i = g_pools_last
    THEN {IF r = NULL THEN Outcome(NULL, st, mp)
          ELSE Outcome(r, st,
                       mp \cup PagesOf(r, Shl1U(JP_ALLOC_POOL_COUNT - 1)))
            : r \in MapChoices(Shl1U(JP_ALLOC_POOL_COUNT - 1), mp)}
    ELSE {IF o.ret = NULL THEN o
          ELSE Outcome(o.ret,
                       [o.stacks EXCEPT ![i] = <<o.ret + Shl1U(i)>> \o @],
                       o.mapped)
            : o \in PoolGetAlone(i + 1, st, mp)}

\* jp_alloc(n) run with no other thread from the state g
JpAllocAlone(n, g) ==
    LET size == Add(n, HeaderSize)
        pid == pool_id(size)
    IN  IF pid < JP_ALLOC_POOL_COUNT
        THEN {Outcome(Add(o.ret, HeaderSize), o.stacks, o.mapped)
                : o \in PoolGetAlone(pid, g.stacks, g.mapped)}
        ELSE {IF r = NULL THEN Outcome(NULL, g.stacks, g.mapped)
              ELSE Outcome(Add(r, HeaderSize), g.stacks,
                           g.mapped \cup PagesOf(r, PageRound(size)))
                : r \in MapChoices(PageRound(size), g.mapped)}

\* the outcome of the call thread t has returned from
OutcomeOf(t) == Outcome(call[t].ret, Stacks, mapped)

\* C11 as stated: for every n, n = 0 included, jp_realloc(null, n)
\* returns what jp_alloc(n) returns from the same state and leaves the
\* same pool state.
C11_ReallocNullIsAlloc ==
    \A t \in Threads :
        (\/ Returned(t, {"jp_alloc"})
         \/ Returned(t, {"jp_realloc"}) /\ call[t].p = NULL)
            => OutcomeOf(t) \in JpAllocAlone(call[t].n, call[t].pre)

\* C11: for every n >= 1, jp_realloc(null, n) returns what jp_alloc(n)
\* returns from the same state and leaves the same pool state;
\* jp_realloc(null, 0) returns null and changes nothing, while
\* jp_alloc(0) never returns null.
C11_ReallocNullIsAllocNonZero ==
    \A t \in Threads :
        /\ Returned(t, {"jp_alloc"})
              => /\ OutcomeOf(t) \in JpAllocAlone(call[t].n, call[t].pre)
                 /\ call[t].n = 0 => call[t].ret # NULL
        /\ (Returned(t, {"jp_realloc"}) /\ call[t].p = NULL)
              => IF call[t].n >= 1
                 THEN OutcomeOf(t) \in JpAllocAlone(call[t].n, call[t].pre)
                 ELSE OutcomeOf(t) =
                        Outcome(NULL, call[t].pre.stacks, call[t].pre.mapped)

\* jp_realloc(null, n) has returned a block it took from a pool that was
\* not empty
C11_ReallocNullPopped ==
    \E t \in Threads :
        /\ Returned(t, {"jp_realloc"})
        /\ call[t].p = NULL
        /\ call[t].n >= 1
        /\ Usable(call[t].ret)
        /\ call[t].oslog = <<>>
        /\ Stacks # call[t].pre.stacks

\* the usable size of the block at p when its header reads as in hs:
\* 2^i - header size for class i, stored size - header size otherwise
UsableOf(hs, p) ==
    LET sz == Rd(hs, Sub(p, HeaderSize))
    IN  Sub(IF sz < JP_ALLOC_POOL_COUNT THEN Pow2(sz) ELSE sz, HeaderSize)

\* jp_realloc(p, n) on a pointer p its caller held has come to its end
ReallocEnded(t) ==
    /\ th[t].pc \in {"done", "fault"}
    /\ call[t].op = "jp_realloc"
    /\ call[t].p \in {r.p : r \in call[t].pre.held}

\* the page source was asked for memory during the call c
Mapped(c) == \E j \in 1 .. Len(c.oslog) : c.oslog[j].fn = "map"
\* the page source was asked to release memory during the call c
Unmapped(c) == \E j \in 1 .. Len(c.oslog) : c.oslog[j].fn = "unmap"

\* C12: for a live non-null p with usable size u and 0 < n <= u,
\* jp_realloc(p, n) returns p and leaves the header of p, every pool
\* stack and the page source unchanged; only for n > u is a new block
\* allocated and p freed.
C12_ReallocInPlace ==
    \A t \in Threads :
        ReallocEnded(t) =>
            LET c == call[t]
                h == Sub(c.p, HeaderSize)
                u == UsableOf(c.pre.hsize, c.p)
            IN  /\ (0 < c.n /\ c.n <= u) =>
                      /\ th[t].pc = "done"
                      /\ c.ret = c.p
                      /\ Rd(hsize, h) = Rd(c.pre.hsize, h)
                      /\ Rd(hnext, h) = Rd(c.pre.hnext, h)
                      /\ Stacks = c.pre.stacks
                      /\ mapped = c.pre.mapped
                      /\ c.oslog = <<>>
                /\ c.n <= u => (c.ret \in {c.p, NULL} /\ ~Mapped(c))
                /\ (c.n > u /\ th[t].pc = "done" /\ Usable(c.ret)) =>
                      /\ c.ret # c.p
                      /\ h \in OnStacks \/ Unmapped(c)

\* jp_realloc(p, n) has returned for a held p and an n between 1 and
\* the usable size of p
C12_ShrinkReturned ==
    \E t \in Threads :
        /\ ReallocEnded(t)
        /\ th[t].pc = "done"
        /\ 0 < call[t].n
        /\ call[t].n <= UsableOf(call[t].pre.hsize, call[t].p)
        /\ call[t].ret = call[t].p

\* thread t takes the step of jp_free that tests the live marker
ChecksMarker(t) == At(t, "free_chk") /\ th'[t].pc # "free_chk"

\* C13: jp_free of a pointer whose header does not carry the live
\* marker adds one to the bad-free counter and changes no pool stack and
\* no header; every pointer returned by an allocation and not yet freed
\* by its caller carries the marker, so its first free is not rejected.
\* (A caller passes to jp_free only pointers it holds, so every test of
\* the marker is that of a first free.)
C13_MarkerGuardsFree ==
    [][\A t \in Threads :
          ChecksMarker(t) =>
              /\ Rd(hnext, th[t].h) # th[t].h =>
                    /\ bad_free' = bad_free + 1
                    /\ th'[t].pc = "done"
                    /\ UNCHANGED <<head, hsize, hnext>>
              /\ Rd(hnext, th[t].h) = th[t].h
              /\ bad_free' = bad_free]_vars

\* thread t is inside an allocator call
InCall(t) == th[t].pc \notin {"idle", "done", "fault"}

\* C14: a thread that keeps taking steps inside jp_alloc or jp_free
\* returns from the call, wherever the other threads stop and whatever
\* they did before; and when the threads make finitely many calls and
\* all of them keep taking steps, every call returns.  The CAS retry
\* loops and the recursive refill end.
C14_CallReturns ==
    /\ InCall(Caller) ~> At(Caller, "done")
    /\ (\A t \in Threads \ {Caller} : Fair(t))
          => (\A t \in Threads \ {Caller} : InCall(t) ~> At(t, "done"))

\* the first thread has returned from a call while another thread
\* stands before a CAS inside its own call
C14_ReturnedPastStoppedThread ==
    /\ At(Caller, "done")
    /\ \E t \in Threads \ {Caller} : th[t].pc \in {"get_cas", "put_cas"}

\* jp_alloc(n') has returned to t, the call before it was jp_free(p) on
\* a pointer p that jp_alloc had returned to t, and the header of p
\* names the pool class of n'
FreedThenAllocated(t) ==
    LET c == call[t]
        pid == pool_id(Add(c.n, HeaderSize))
    IN  /\ Returned(t, {"jp_alloc"})
        /\ c.last.op = "jp_free"
        /\ c.last.p \in {r.p : r \in c.last.pre.held}
        /\ pid < JP_ALLOC_POOL_COUNT
        /\ Rd(c.last.pre.hsize, Sub(c.last.p, HeaderSize)) = pid

\* C15: jp_free(p) followed by jp_alloc(n') of the class of p, with no
\* allocator call in between, returns p, and the pool stacks are then
\* what they were just before jp_free(p).
C15_LifoReuse ==
    \A t \in Threads :
        FreedThenAllocated(t) =>
            /\ call[t].ret = call[t].last.p
            /\ Stacks = call[t].last.pre.stacks

\* the smallest i with 2^i >= g
SmallestClass(g) ==
    CHOOSE i \in 0 .. WordBits + 1 :
        Pow2(i) >= g /\ (i = 0 \/ Pow2(i - 1) < g)

\* C16: for n >= 1, the block jp_alloc(n) returns has header.size = i
\* for the smallest i with 2^i >= n + header size when that i is a pool
\* class, and every request with n + header size > 2^(K-1) is served by
\* direct mapping and not from any pool.
C16_ClassSelection ==
    \A t \in Threads :
        (Returned(t, {"jp_alloc"}) /\ call[t].n >= 1 /\ Usable(call[t].ret))
            => LET c == call[t]
                   gross == c.n + HeaderSize
                   h == Sub(c.ret, HeaderSize)
               IN  IF gross <= Pow2(JP_ALLOC_POOL_COUNT - 1)
                   THEN /\ Rd(hsize, h) = SmallestClass(gross)
                        /\ h \notin OnStacks
                   ELSE /\ Rd(hsize, h) >= JP_ALLOC_POOL_COUNT
                        /\ Stacks = c.pre.stacks
                        /\ c.oslog = <<MapLog(Rd(hsize, h), h)>>

\* C17: the header of a live direct-mapped block, made by jp_alloc's
\* large path or by jp_alloc_aligned, has a size field that is >= K and
\* equals the number of bytes mapped for the block.
C17_DirectSizeIsMappedBytes ==
    \A t \in Threads :
        (/\ Returned(t, {"jp_alloc", "jp_alloc_aligned"})
         /\ Usable(call[t].ret)
         /\ Mapped(call[t])
         /\ call[t].region # NoRegion)
            => LET sz == Rd(hsize, Sub(call[t].ret, HeaderSize))
               IN  /\ sz >= JP_ALLOC_POOL_COUNT
                   /\ sz = Cardinality(call[t].region) * PageSize

\* the base of the terminal span that holds address b
SpanBase(b) ==
    CHOOSE a \in {sl * PageSize : sl \in Slots} \cup {NULL} :
        \/ a # NULL /\ a <= b /\ b < a + Pow2(JP_ALLOC_POOL_COUNT - 1)
        \/ a = NULL /\ \A sl \in Slots :
               ~(sl * PageSize <= b
                   /\ b < sl * PageSize + Pow2(JP_ALLOC_POOL_COUNT - 1))

\* the bytes of the block whose header is at b
Extent(b) == b .. b + Pow2(Rd(hsize, b)) - 1

\* every block on pool i's stack has header.size = i, lies at a multiple
\* of 2^i from the base of its terminal span, and overlaps no other free
\* block and no live block
PoolArrayOk ==
    \A i \in Pools : \A b \in Range(StackSeq(i)) :
        /\ Rd(hsize, b) = i
        /\ SpanBase(b) # NULL
        /\ (b - SpanBase(b)) % Pow2(i) = 0
        /\ \A b2 \in OnStacks \ {b} : Extent(b) \cap Extent(b2) = {}
        /\ \A t \in Threads : \A q \in Live(t) :
               Extent(b) \cap Extent(Sub(q, HeaderSize)) = {}

\* C18: in every state, under any interleaving, every block reached from
\* pool i's head has header.size = i, is aligned to 2^i within its
\* terminal span and overlaps no other free block and no live block; a
\* split of a class-(i+1) block gives the two halves at offsets 0 and
\* 2^i; no block moves to a larger class.
C18_PoolArrayInvariant ==
    [][/\ PoolArrayOk'
       /\ \A t \in Threads :
             (At(t, "get_split") /\ th[t].mem # NULL /\ th'[t] # th[t]) =>
                 /\ Rd(hsize, th[t].mem) = th[t].lvl + 1
                 /\ Rd(hsize', th[t].mem) = th[t].lvl
                 /\ th'[t].h = th[t].mem + Pow2(th[t].lvl)
                 /\ Rd(hsize', th'[t].h) = th[t].lvl
       /\ \A b \in DOMAIN hsize \cap DOMAIN hsize' :
             hsize'[b] <= hsize[b]]_vars

\* jp_alloc_aligned(a, n) has returned a pointer to t for a power-of-two
\* a above the page size
BigAlignReturned(t) ==
    /\ Returned(t, {"jp_alloc_aligned"})
    /\ IsPowerOfTwo(call[t].a)
    /\ call[t].a > PageSize
    /\ call[t].ret # NULL

\* the property of C19 for the call of t, which mapped the span
\* oslog[1]: the leading run, the trailing run, what stays mapped
TrimmedAsClaimed(t) ==
    LET c == call[t]
        span == c.oslog[1].addr
        len == c.oslog[1].len
        offset == c.ret - PageSize - span
        trail == c.a - PageSize - offset
    IN  /\ offset >= 0 /\ offset % PageSize = 0
        /\ trail >= 0 /\ trail % PageSize = 0
        /\ Tail(c.oslog) =
              (IF offset > 0 THEN <<UnmapLog(span, offset)>> ELSE <<>>)
              \o (IF trail > 0 THEN <<UnmapLog(span + len - trail, trail)>>
                  ELSE <<>>)
        /\ c.region = PagesOf(span + offset, len - offset - trail)
        /\ PagesOf(c.ret - HeaderSize, HeaderSize + c.n) \subseteq c.region

\* C19: for a power-of-two a above the page size, jp_alloc_aligned(a, n)
\* returns to the page source exactly a leading run of offset bytes and
\* a trailing run of a - page size - offset bytes of the span, both
\* whole pages, and what stays mapped holds the header before the user
\* pointer and all n user bytes after it.
C19_TrimLeavesBlockMapped ==
    \A t \in Threads : BigAlignReturned(t) => TrimmedAsClaimed(t)

\* C20: when jp_realloc(p, n) must grow and the new allocation fails,
\* the call returns null and the old block is untouched: p keeps its
\* header, is on no pool stack and is not unmapped.
C20_FailedGrowKeepsBlock ==
    \A t \in Threads :
        LET c == call[t]
            h == Sub(c.p, HeaderSize)
        IN  (/\ ReallocEnded(t)
             /\ c.n > UsableOf(c.pre.hsize, c.p)
             /\ MapFailed(c))
                => /\ th[t].pc = "done"
                   /\ c.ret = NULL
                   /\ Rd(hsize, h) = Rd(c.pre.hsize, h)
                   /\ Rd(hnext, h) = h
                   /\ h \notin OnStacks
                   /\ Stacks = c.pre.stacks
                   /\ ~Unmapped(c)
                   /\ mapped = c.pre.mapped

====
